---- MODULE Spec2Model ----
(***************************************************************************)
(* A model of TaskManager (src/task_manage.py): the SQLite table `tasks`   *)
(* and the operations add_task, view_tasks, update_task, delete_task,      *)
(* filter_tasks, search_tasks and due_soon_tasks.                          *)
(*                                                                         *)
(* Text that the code takes apart (task ids given to int(), descriptions   *)
(* and keywords given to LIKE, deadlines compared as TEXT) is a sequence   *)
(* of one-character strings.  Enumerated text that is only compared for    *)
(* equality (status, priority, order_by) is a TLA+ string.                 *)
(***************************************************************************)
EXTENDS Integers, Sequences, FiniteSets, TLC

VARIABLES
    tasks,      \* the committed rows of table tasks, in rowid (= id) order
    seq,        \* sqlite_sequence.seq of tasks: the largest id ever assigned
    assigned,   \* history: every id an INSERT has assigned so far
    last        \* the last call: its name, arguments, outcome, printed report, result

vars == <<tasks, seq, assigned, last>>

----------------------------------------------------------------------------
(* Bounds *)

\* The number of INSERTs a behaviour may perform (ids never come back, so
\* the AUTOINCREMENT counter has to be capped).
MaxTasks == 2

\* The number of rows of the tables the read operations are run on.
MaxRows == 3

----------------------------------------------------------------------------
(* Text *)

NoneText == <<"None">>       \* Python None / SQL NULL where a text is expected

Truthy(text) == text # NoneText /\ text # <<>>

DigitChars == {"0", "1", "2", "3", "4", "5", "6", "7", "8", "9"}

DigitVal(c) ==
    CASE c = "0" -> 0 [] c = "1" -> 1 [] c = "2" -> 2 [] c = "3" -> 3
      [] c = "4" -> 4 [] c = "5" -> 5 [] c = "6" -> 6 [] c = "7" -> 7
      [] c = "8" -> 8 [] c = "9" -> 9

DigitChar(n) ==
    CASE n = 0 -> "0" [] n = 1 -> "1" [] n = 2 -> "2" [] n = 3 -> "3"
      [] n = 4 -> "4" [] n = 5 -> "5" [] n = 6 -> "6" [] n = 7 -> "7"
      [] n = 8 -> "8" [] n = 9 -> "9"

RECURSIVE LStrip(_)
LStrip(s) == IF s # <<>> /\ Head(s) = " " THEN LStrip(Tail(s)) ELSE s

RECURSIVE RStrip(_)
RStrip(s) ==
    IF s # <<>> /\ s[Len(s)] = " " THEN RStrip(SubSeq(s, 1, Len(s) - 1)) ELSE s

RECURSIVE StripZeros(_)
StripZeros(s) == IF s # <<>> /\ Head(s) = "0" THEN StripZeros(Tail(s)) ELSE s

\* The digits of a decimal literal body: digits, with single underscores
\* allowed between two digits.
DecimalBody(s) ==
    /\ s # <<>>
    /\ \A i \in 1..Len(s) :
          \/ s[i] \in DigitChars
          \/ /\ s[i] = "_"
             /\ 1 < i /\ i < Len(s)
             /\ s[i - 1] \in DigitChars /\ s[i + 1] \in DigitChars

WithoutUnderscores(s) == SelectSeq(s, LAMBDA c : c # "_")

\* int(text): surrounding blanks are dropped, one sign is allowed, then a
\* decimal body; anything else is a ValueError (ok = FALSE).  The value is
\* kept as sign and significant digits: a Python int has no width.
PyInt(text) ==
    LET t    == RStrip(LStrip(text))
        sgn  == t # <<>> /\ Head(t) \in {"+", "-"}
        body == IF sgn THEN Tail(t) ELSE t
    IN IF DecimalBody(body)
       THEN [ok |-> TRUE,
             neg |-> sgn /\ Head(t) = "-" /\ StripZeros(WithoutUnderscores(body)) # <<>>,
             digits |-> StripZeros(WithoutUnderscores(body))]
       ELSE [ok |-> FALSE, neg |-> FALSE, digits |-> <<>>]

\* str(n) of a parsed int, as print puts it in a message.
IntText(n) ==
    IF n.digits = <<>> THEN <<"0">>
    ELSE IF n.neg THEN <<"-">> \o n.digits ELSE n.digits

\* 2^63 - 1, the largest SQLite INTEGER, as digits.
Int64MaxDigits ==
    <<"9","2","2","3","3","7","2","0","3","6","8","5","4","7","7","5","8","0","7">>

RECURSIVE DigitsLeq(_, _)
DigitsLeq(a, b) ==     \* a <= b for digit sequences of one length
    IF a = <<>> THEN TRUE
    ELSE IF DigitVal(Head(a)) # DigitVal(Head(b))
         THEN DigitVal(Head(a)) < DigitVal(Head(b))
         ELSE DigitsLeq(Tail(a), Tail(b))

\* Binding a Python int to a statement parameter succeeds iff it fits in a
\* signed 64-bit integer; otherwise sqlite3 raises OverflowError.
FitsSqliteInteger(n) ==
    \/ Len(n.digits) < Len(Int64MaxDigits)
    \/ /\ Len(n.digits) = Len(Int64MaxDigits)
       /\ \/ DigitsLeq(n.digits, Int64MaxDigits)
          \/ n.neg /\ n.digits = [Int64MaxDigits EXCEPT ![Len(Int64MaxDigits)] = "8"]

RECURSIVE DigitsValue(_)
DigitsValue(d) ==
    IF d = <<>> THEN 0 ELSE 10 * DigitsValue(SubSeq(d, 1, Len(d) - 1)) + DigitVal(d[Len(d)])

----------------------------------------------------------------------------
(* The table *)

STATUSES == {"Pending", "Completed"}
PRIORITIES == {"high", "medium", "low"}

\* A table declared without constraints would accept every row.
TableCheckNone(row) == TRUE

\* The CHECK constraints of CREATE TABLE tasks (description is NOT NULL).

TableCheck(row) ==
    /\ row.description # NoneText
    /\ row.status \in STATUSES
    /\ row.priority \in PRIORITIES

Ids(rows) == {rows[i].id : i \in 1..Len(rows)}

MaxOf(S) == IF S = {} THEN 0 ELSE CHOOSE m \in S : \A x \in S : x <= m

\* A plain INTEGER PRIMARY KEY would take one more than the largest id now in
\* the table.
NextIdRowid(rows, counter) == MaxOf(Ids(rows)) + 1

\* The id an INSERT gets: with AUTOINCREMENT, one more than the largest id the
\* table has ever held (sqlite_sequence keeps it).
NextId(rows, counter) == MaxOf(Ids(rows) \cup {counter}) + 1

\* SELECT * FROM tasks WHERE id = ?: the position of the row, 0 for none.
\* Ids in the table are small; a parameter of more than 9 digits matches none.
FindRow(rows, n) ==
    IF n.neg \/ Len(n.digits) > 9 THEN 0
    ELSE LET hit == {i \in 1..Len(rows) : rows[i].id = DigitsValue(n.digits)}
         IN IF hit = {} THEN 0 ELSE CHOOSE i \in hit : TRUE

RemoveAt(rows, k) == SubSeq(rows, 1, k - 1) \o SubSeq(rows, k + 1, Len(rows))

----------------------------------------------------------------------------
(* Calls *)

\* What `last` holds before any call, and the fields every call fills in.
NoCall ==
    [op |-> "none", task_ids |-> <<>>, description |-> <<>>, deadline |-> <<>>,
     status |-> "", priority |-> "", keyword |-> <<>>, order_by |-> "",
     now |-> <<>>, outcome |-> "none", report |-> <<>>, result |-> <<>>]

\* Parsing that skipped the ids int() refuses and went on with the others.
ParseIdsLenient(task_ids) ==
    LET good == SelectSeq(task_ids, LAMBDA t : PyInt(t).ok)
    IN [ok |-> TRUE, ids |-> [i \in 1..Len(good) |-> PyInt(good[i])]]

\* task_ids = [int(task_id) for task_id in task_ids]: every id is parsed
\* before anything else happens, and one ValueError abandons the call.
ParseIds(task_ids) ==
    IF \A i \in 1..Len(task_ids) : PyInt(task_ids[i]).ok
    THEN [ok |-> TRUE, ids |-> [i \in 1..Len(task_ids) |-> PyInt(task_ids[i])]]
    ELSE [ok |-> FALSE, ids |-> <<>>]

\* One UPDATE tasks SET <column> = ? WHERE id = ? on the open connection:
\* the statement fails with IntegrityError when the new row breaks a CHECK.
SetColumn(st, k, column, value) ==
    LET row == [st.rows[k] EXCEPT ![column] = value]
    IN IF st.raised # "" THEN st
       ELSE IF TableCheck(row) THEN [st EXCEPT !.rows[k] = row]
       ELSE [st EXCEPT !.raised = "IntegrityError"]

\* The body of update_task's loop for one id.  st is the loop's state: the
\* rows as the open connection sees them, the local variable status (which
\* the body assigns), the messages printed and the exception raised, if any.
UpdateOne(st, task_id, description, priority, deadline) ==
    IF ~FitsSqliteInteger(task_id) THEN [st EXCEPT !.raised = "OverflowError"]
    ELSE LET k == FindRow(st.rows, task_id)
         IN IF k = 0 THEN [st EXCEPT !.report = Append(@, IntText(task_id))]
            ELSE LET s1 == IF Truthy(description)
                           THEN SetColumn(st, k, "description", description)
                           ELSE st
                     mapped == IF s1.status = "1" THEN "Pending" ELSE "Completed"
                     s2 == IF s1.status # ""
                           THEN SetColumn([s1 EXCEPT !.status = mapped], k, "status", mapped)
                           ELSE s1
                     s3 == IF priority # ""
                           THEN SetColumn(s2, k, "priority", priority)
                           ELSE s2
                 IN IF Truthy(deadline)
                    THEN SetColumn(s3, k, "deadline", deadline)
                    ELSE s3

RECURSIVE UpdateLoop(_, _, _, _, _, _)
UpdateLoop(st, ids, i, description, priority, deadline) ==
    IF i > Len(ids) \/ st.raised # "" THEN st
    ELSE UpdateLoop(UpdateOne(st, ids[i], description, priority, deadline),
                    ids, i + 1, description, priority, deadline)

\* The body of delete_task's loop for one id.
DeleteOne(st, task_id) ==
    IF ~FitsSqliteInteger(task_id) THEN [st EXCEPT !.raised = "OverflowError"]
    ELSE LET k == FindRow(st.rows, task_id)
         IN IF k = 0 THEN [st EXCEPT !.report = Append(@, IntText(task_id))]
            ELSE [st EXCEPT !.rows = RemoveAt(@, k)]

RECURSIVE DeleteLoop(_, _, _)
DeleteLoop(st, ids, i) ==
    IF i > Len(ids) \/ st.raised # "" THEN st
    ELSE DeleteLoop(DeleteOne(st, ids[i]), ids, i + 1)

LoopStart(status) == [rows |-> tasks, status |-> status, report |-> <<>>, raised |-> ""]

\* How a loop over ids ends: conn.commit() makes the rows durable; an
\* exception leaves the function before commit and close, and the open
\* transaction is rolled back when the connection is discarded (at the latest
\* when the process ends: run() does not catch the exception).  The model
\* takes up at the rollback; until then the abandoned connection can keep the
\* file locked against other writers, which changes no stored row.
Finish(st, call) ==
    IF st.raised = ""
    THEN /\ tasks' = st.rows
         /\ last' = [call EXCEPT !.outcome = "ok", !.report = st.report]
    ELSE /\ tasks' = tasks
         /\ last' = [call EXCEPT !.outcome = st.raised, !.report = st.report]

add_task(description, deadline, priority, status) ==
    LET call == [NoCall EXCEPT !.op = "add", !.description = description,
                               !.deadline = deadline, !.priority = priority,
                               !.status = status]
        id   == NextId(tasks, seq)
        row  == [id |-> id, description |-> description, deadline |-> deadline,
                 status |-> status, priority |-> priority]
    IN IF ~Truthy(description) \/ priority \notin {"high", "medium", "low"}
          \/ status \notin {"Pending", "Completed"}
       THEN /\ last' = [call EXCEPT !.outcome = "rejected"]
            /\ UNCHANGED <<tasks, seq, assigned>>
       ELSE IF ~TableCheck(row)
       THEN /\ last' = [call EXCEPT !.outcome = "IntegrityError"]
            /\ UNCHANGED <<tasks, seq, assigned>>
       ELSE /\ seq < MaxTasks
            /\ tasks' = Append(tasks, row)
            /\ seq' = id
            /\ assigned' = assigned \cup {id}
            /\ last' = [call EXCEPT !.outcome = "ok"]

update_task(task_ids, description, status, priority, deadline) ==
    LET call   == [NoCall EXCEPT !.op = "update", !.task_ids = task_ids,
                                 !.description = description, !.deadline = deadline,
                                 !.priority = priority, !.status = status]
        parsed == ParseIds(task_ids)
    IN /\ IF ~parsed.ok
          THEN /\ last' = [call EXCEPT !.outcome = "rejected"]
               /\ tasks' = tasks
          ELSE Finish(UpdateLoop(LoopStart(status), parsed.ids, 1,
                                 description, priority, deadline), call)
       /\ UNCHANGED <<seq, assigned>>

delete_task(task_ids) ==
    LET call   == [NoCall EXCEPT !.op = "delete", !.task_ids = task_ids]
        parsed == ParseIds(task_ids)
    IN /\ IF ~parsed.ok
          THEN /\ last' = [call EXCEPT !.outcome = "rejected"]
               /\ tasks' = tasks
          ELSE Finish(DeleteLoop(LoopStart(""), parsed.ids, 1), call)
       /\ UNCHANGED <<seq, assigned>>

----------------------------------------------------------------------------
(* The inputs of the write operations *)

Pad2(n) == <<DigitChar(n \div 10), DigitChar(n % 10)>>

\* A date as the menu's strftime("%Y-%m-%d") writes it.
DateText(y, m, d) ==
    <<DigitChar(y \div 1000), DigitChar((y \div 100) % 10), DigitChar((y \div 10) % 10),
      DigitChar(y % 10)>> \o <<"-">> \o Pad2(m) \o <<"-">> \o Pad2(d)

IdText(i) == <<DigitChar(i)>>

NotANumber == <<"a", "b", "c">>

\* 2^63, one more than SQLite can hold.
TooLarge ==
    <<"9","2","2","3","3","7","2","0","3","6","8","5","4","7","7","5","8","0","8">>

\* Lists of at most two ids, as input(...).split(",") produces them: the ids
\* the table has held or may hold, alone and in pairs (in both orders and
\* doubled), and id 1 beside a word, an empty text ("1,"), a blank-led id
\* ("1, 2") and a number too large for the table.
NumericPairs == {<<IdText(i), IdText(j)>> : i \in 1..MaxTasks, j \in 1..MaxTasks}

IdLists ==
    {<<>>} \cup {<<IdText(i)>> : i \in 1..MaxTasks} \cup NumericPairs
      \cup {<<NotANumber>>, <<IdText(1), NotANumber>>, <<NotANumber, IdText(1)>>,
            <<IdText(1), <<>> >>, <<IdText(1), <<" ", "2">> >>,
            <<TooLarge>>, <<IdText(1), TooLarge>>}

AddDescriptions == {<<>>, <<"a">>}
AddPriorities == {"high", "urgent"}
AddStatuses == {"Pending", "Done"}

\* (description, status, priority, deadline) of an update call.  The menu
\* passes the priority the user typed ("1" for High) as it is.
UpdateFields ==
    {<< <<"x">>, "", "", NoneText >>,
     << <<>>, "1", "", NoneText >>,
     << <<>>, "2", "", NoneText >>,
     << <<>>, "", "1", NoneText >>,
     << <<"x">>, "2", "1", NoneText >>}

Init ==
    /\ tasks = <<>>
    /\ seq = 0
    /\ assigned = {}
    /\ last = NoCall

Next ==
    \/ \E d \in AddDescriptions, p \in AddPriorities, s \in AddStatuses :
          add_task(d, DateText(2024, 1, 1), p, s)
    \/ \E ids \in IdLists, f \in UpdateFields :
          update_task(ids, f[1], f[2], f[3], f[4])
    \/ \E ids \in IdLists : delete_task(ids)

Spec == Init /\ [][Next]_vars

\* The same store under update calls that set every column: adds with the
\* default priority and status, updates of existing ids alone and in pairs.
FieldsUpdateFields ==
    {<< <<>>, "1", "", NoneText >>,
     << <<>>, "2", "", NoneText >>,
     << <<>>, "Pending", "", NoneText >>,
     << <<>>, "", "low", <<>> >>,
     << <<"x">>, "", "", DateText(2024, 1, 2) >>}

NextFields ==
    \/ add_task(<<"a">>, DateText(2024, 1, 1), "medium", "Pending")
    \/ \E ids \in {<<IdText(i)>> : i \in 1..MaxTasks} \cup NumericPairs,
           f \in FieldsUpdateFields :
          update_task(ids, f[1], f[2], f[3], f[4])

SpecFields == Init /\ [][NextFields]_vars

----------------------------------------------------------------------------
(* The read operations *)

\* The byte of a character, for the characters deadlines are written with.
CharCode(c) ==
    CASE c = " " -> 32 [] c = "-" -> 45 [] c = ":" -> 58
      [] c \in DigitChars -> 48 + DigitVal(c)

\* a < b for TEXT under SQLite's BINARY collation: byte by byte, and a proper
\* prefix comes first.
RECURSIVE TextLess(_, _)
TextLess(a, b) ==
    IF b = <<>> THEN FALSE
    ELSE IF a = <<>> THEN TRUE
    ELSE IF Head(a) # Head(b) THEN CharCode(Head(a)) < CharCode(Head(b))
    ELSE TextLess(Tail(a), Tail(b))

\* ORDER BY deadline: NULL sorts first, then text ascending.
DeadlineBefore(r1, r2) ==
    IF r1.deadline = NoneText THEN r2.deadline # NoneText
    ELSE r2.deadline # NoneText /\ TextLess(r1.deadline, r2.deadline)

\* The order the priority texts themselves would sort in.
PriorityRankLexical(priority) ==
    CASE priority = "high" -> 1 [] priority = "low" -> 2 [] priority = "medium" -> 3
      [] OTHER -> 0

\* CASE priority WHEN 'high' THEN 1 WHEN 'medium' THEN 2 WHEN 'low' THEN 3 END
\* (NULL, which sorts first, for anything else).
PriorityRank(priority) ==
    CASE priority = "high" -> 1 [] priority = "medium" -> 2 [] priority = "low" -> 3
      [] OTHER -> 0

PriorityBefore(r1, r2) == PriorityRank(r1.priority) < PriorityRank(r2.priority)

\* The orders in which a SELECT with an ORDER BY may return `rows`: every
\* arrangement in which no row comes after one it sorts before (SQL leaves the
\* order of rows with equal keys open).
Arrangements(rows) ==
    {[i \in 1..Len(rows) |-> rows[p[i]]] :
        p \in {f \in [1..Len(rows) -> 1..Len(rows)] :
                  \A i, j \in 1..Len(rows) : i # j => f[i] # f[j]}}

\* r1 sorts before r2 under the ORDER BY that order_by selects.
SortsBefore(order_by, r1, r2) ==
    IF order_by = "deadline" THEN DeadlineBefore(r1, r2)
    ELSE IF order_by = "priority" THEN PriorityBefore(r1, r2)
    ELSE r1.id < r2.id

\* SELECT * FROM tasks [ORDER BY ...] of view_tasks; without an ORDER BY the
\* rows come in rowid order.
ViewQuery(rows, order_by) ==
    {s \in Arrangements(rows) :
        \A i, j \in 1..Len(s) : i < j => ~SortsBefore(order_by, s[j], s[i])}

view_tasks(order_by) ==
    /\ \E fetched \in ViewQuery(tasks, order_by) :
          last' = [NoCall EXCEPT !.op = "view", !.order_by = order_by,
                                 !.outcome = IF fetched = <<>> THEN "empty" ELSE "ok",
                                 !.result = fetched]
    /\ UNCHANGED <<tasks, seq, assigned>>

filter_tasks(status) ==
    LET call   == [NoCall EXCEPT !.op = "filter", !.status = status]
        mapped == IF status = "1" THEN "Pending" ELSE "Completed"
        found  == SelectSeq(tasks, LAMBDA r : r.status = mapped)
    IN /\ IF status \notin {"1", "2"}
          THEN last' = [call EXCEPT !.outcome = "rejected"]
          ELSE last' = [call EXCEPT !.outcome = IF found = <<>> THEN "empty" ELSE "ok",
                                    !.result = found]
       /\ UNCHANGED <<tasks, seq, assigned>>

\* A comparison that folded no letter.
LowerAsciiNone(c) == c

\* SQLite's LIKE folds the 26 ASCII upper-case letters and nothing else.
LowerAscii(c) ==
    CASE c = "A" -> "a" [] c = "B" -> "b" [] c = "C" -> "c" [] c = "D" -> "d"
      [] c = "E" -> "e" [] c = "F" -> "f" [] c = "G" -> "g" [] c = "H" -> "h"
      [] c = "I" -> "i" [] c = "J" -> "j" [] c = "K" -> "k" [] c = "L" -> "l"
      [] c = "M" -> "m" [] c = "N" -> "n" [] c = "O" -> "o" [] c = "P" -> "p"
      [] c = "Q" -> "q" [] c = "R" -> "r" [] c = "S" -> "s" [] c = "T" -> "t"
      [] c = "U" -> "u" [] c = "V" -> "v" [] c = "W" -> "w" [] c = "X" -> "x"
      [] c = "Y" -> "y" [] c = "Z" -> "z" [] OTHER -> c

\* text LIKE pattern, with no ESCAPE: % stands for any run of characters, _
\* for any one character, any other character for itself up to ASCII case.
RECURSIVE Like(_, _)
Like(text, pattern) ==
    IF pattern = <<>> THEN text = <<>>
    ELSE IF Head(pattern) = "%"
         THEN \E k \in 0..Len(text) : Like(SubSeq(text, k + 1, Len(text)), Tail(pattern))
    ELSE IF text = <<>> THEN FALSE
    ELSE IF Head(pattern) = "_" THEN Like(Tail(text), Tail(pattern))
    ELSE /\ LowerAscii(Head(text)) = LowerAscii(Head(pattern))
         /\ Like(Tail(text), Tail(pattern))

search_tasks(keyword) ==
    LET call  == [NoCall EXCEPT !.op = "search", !.keyword = keyword]
        found == SelectSeq(tasks,
                    LAMBDA r : Like(r.description, <<"%">> \o keyword \o <<"%">>))
    IN /\ IF ~Truthy(keyword)
          THEN last' = [call EXCEPT !.outcome = "rejected"]
          ELSE last' = [call EXCEPT !.outcome = IF found = <<>> THEN "empty" ELSE "ok",
                                    !.result = found]
       /\ UNCHANGED <<tasks, seq, assigned>>

IsLeap(y) == (y % 4 = 0 /\ y % 100 # 0) \/ y % 400 = 0

DaysInMonth(y, m) ==
    IF m = 2 THEN (IF IsLeap(y) THEN 29 ELSE 28)
    ELSE IF m \in {4, 6, 9, 11} THEN 30 ELSE 31

\* now + timedelta(hours=24): the same time of day on the next calendar day.
PlusHours24(dt) ==
    IF dt.d < DaysInMonth(dt.y, dt.m) THEN [dt EXCEPT !.d = @ + 1]
    ELSE IF dt.m < 12 THEN [dt EXCEPT !.d = 1, !.m = @ + 1]
    ELSE [dt EXCEPT !.d = 1, !.m = 1, !.y = @ + 1]

\* dt.strftime('%Y-%m-%d %H:%M:%S')
Strftime(dt) ==
    DateText(dt.y, dt.m, dt.d) \o <<" ">> \o Pad2(dt.h) \o <<":">> \o Pad2(dt.mi)
       \o <<":">> \o Pad2(dt.s)

\* A cutoff taken at now, without the 24 hours.
UpcomingNow(now) == Strftime(now)

Upcoming(now) == Strftime(PlusHours24(now))

\* deadline <= ? (NULL <= ? is not true).
TextLeq(a, b) == a # NoneText /\ (a = b \/ TextLess(a, b))

due_soon_tasks(now) ==
    LET upcoming == Upcoming(now)
        found    == SelectSeq(tasks,
                       LAMBDA r : TextLeq(r.deadline, upcoming) /\ r.status = "Pending")
    IN /\ last' = [NoCall EXCEPT !.op = "due_soon", !.now = now,
                                 !.report = <<upcoming>>,
                                 !.outcome = IF found = <<>> THEN "empty" ELSE "ok",
                                 !.result = found]
       /\ UNCHANGED <<tasks, seq, assigned>>

----------------------------------------------------------------------------
(* The inputs of the read operations: tables that adds, updates and deletes
   can have built, and the calls made on them *)

Text(y, m, d, h, mi, s) == Strftime([y |-> y, m |-> m, d |-> d, h |-> h, mi |-> mi, s |-> s])

\* The tables of at most MaxRows inserted rows, some of them deleted since,
\* whose rows take their columns from `bodies`.
RECURSIVE RowsInIdOrder(_, _)
RowsInIdOrder(live, body) ==
    IF live = {} THEN <<>>
    ELSE LET id == CHOOSE i \in live : \A j \in live : i <= j
         IN <<[id |-> id, description |-> body[id].description,
               deadline |-> body[id].deadline, status |-> body[id].status,
               priority |-> body[id].priority]>>
              \o RowsInIdOrder(live \ {id}, body)

InitTable(bodies) ==
    /\ last = NoCall
    /\ \E n \in 0..MaxRows :
          /\ seq = n
          /\ assigned = 1..n
          /\ \E live \in SUBSET (1..n) :
                \E body \in [live -> bodies] :
                   tasks = RowsInIdOrder(live, body)

\* ("Eacute" and "eacute" each stand for one non-ASCII letter: E and e with an
\* acute accent.)
SearchDescriptions ==
    {<<"B","u","y"," ","m","i","l","k">>, <<"M","i","l","k","s","h","a","k","e">>,
     <<"s","i","l","k">>, <<"5","0","%">>, <<"Eacute","t","eacute">>}

SearchKeywords ==
    {<<>>, <<"m","i","l","k">>, <<"M","i","l","k">>, <<"_","i","l","k">>, <<"%">>,
     <<"k","e">>, <<"eacute","t">>}

InitSearch ==
    InitTable([description : SearchDescriptions, deadline : {DateText(2024, 1, 1)},
               status : {"Pending"}, priority : {"medium"}])

NextSearch == \E keyword \in SearchKeywords : search_tasks(keyword)

SpecSearch == InitSearch /\ [][NextSearch]_vars

DueDeadlines ==
    {NoneText, Text(2024, 1, 1, 12, 0, 0), DateText(2024, 1, 2), Text(2024, 1, 2, 0, 0, 1),
     DateText(2024, 3, 1), DateText(2025, 1, 1)}

DueNows ==
    {[y |-> 2024, m |-> 1, d |-> 1, h |-> 0, mi |-> 0, s |-> 0],
     [y |-> 2024, m |-> 2, d |-> 28, h |-> 23, mi |-> 59, s |-> 59],
     [y |-> 2024, m |-> 2, d |-> 29, h |-> 9, mi |-> 5, s |-> 0],
     [y |-> 2024, m |-> 12, d |-> 31, h |-> 0, mi |-> 0, s |-> 0]}

InitDue ==
    InitTable([description : {<<"a">>}, deadline : DueDeadlines,
               status : STATUSES, priority : {"medium"}])

NextDue ==
    \/ \E now \in DueNows : due_soon_tasks(now)
    \/ \E status \in {"1", "2", "3"} : filter_tasks(status)

SpecDue == InitDue /\ [][NextDue]_vars

InitView ==
    InitTable([description : {<<"a">>},
               deadline : {NoneText, DateText(2024, 1, 1)},
               status : {"Pending"}, priority : PRIORITIES])

NextView == \E order_by \in {"", "deadline", "priority"} : view_tasks(order_by)

SpecView == InitView /\ [][NextView]_vars

----------------------------------------------------------------------------
(* What the claims speak of *)

NumericText(t) == PyInt(t).ok

AllNumeric(task_ids) == \A i \in 1..Len(task_ids) : NumericText(task_ids[i])

\* The rows of `rows` that text t names: those whose id prints as int(t) does.
RowsNamed(rows, t) ==
    {rows[i] : i \in {j \in 1..Len(rows) : IntText(PyInt(t)) = <<DigitChar(rows[j].id)>>}}

NamedIds(rows, task_ids) ==
    {r.id : r \in UNION {RowsNamed(rows, task_ids[i]) : i \in 1..Len(task_ids)}}

RowOf(rows, id) == CHOOSE r \in {rows[i] : i \in 1..Len(rows)} : r.id = id

InvalidAdd(call) ==
    /\ call.op = "add"
    /\ \/ call.description = <<>>
       \/ call.priority \notin {"high", "medium", "low"}
       \/ call.status \notin {"Pending", "Completed"}

NonNumericBatch(call) ==
    /\ call.op \in {"update", "delete"}
    /\ ~AllNumeric(call.task_ids)

NumericBatch(call) ==
    /\ call.op \in {"update", "delete"}
    /\ AllNumeric(call.task_ids)

\* C1: a call rejected for invalid input (an add with an empty description or
\* an out-of-enum priority or status, an update or delete whose id list holds
\* a non-numeric id) reports the rejection and leaves the table as it was,
\* valid existing ids of the same call included.
C1_RejectedCallWritesNothing ==
    [][(InvalidAdd(last') \/ NonNumericBatch(last'))
          => (last'.outcome = "rejected" /\ tasks' = tasks /\ seq' = seq)]_vars

\* C1 witness: an update that was rejected for a non-numeric id while it also
\* named an existing record and carried a new description.
C1_Witness ==
    /\ last.op = "update"
    /\ last.outcome = "rejected"
    /\ ~AllNumeric(last.task_ids)
    /\ NamedIds(tasks, last.task_ids) # {}
    /\ Truthy(last.description)

\* C2: after an update call with all-numeric ids, status "1" has made every
\* existing record named in ids Pending, and any other non-empty status has
\* made every one of them Completed.
C2_StatusMappingOnEveryId ==
    (last.op = "update" /\ AllNumeric(last.task_ids) /\ last.status # "")
       => \A id \in NamedIds(tasks, last.task_ids) :
             RowOf(tasks, id).status =
                IF last.status = "1" THEN "Pending" ELSE "Completed"

\* C3: a successful add appends one record whose id was never assigned
\* before (deleted records' ids included), no two records share an id, and
\* no call changes the id of a record: every other call leaves the set of ids
\* as it was or smaller.
C3_IdsUniqueNeverReused ==
    [][/\ Cardinality(Ids(tasks')) = Len(tasks')
       /\ IF last'.op = "add" /\ last'.outcome = "ok"
          THEN /\ Len(tasks') = Len(tasks) + 1
               /\ SubSeq(tasks', 1, Len(tasks)) = tasks
               /\ tasks'[Len(tasks')].id \notin assigned
               /\ tasks'[Len(tasks')].id \notin Ids(tasks)
          ELSE Ids(tasks') \subseteq Ids(tasks)]_vars

\* C3 witness: an add has succeeded after an earlier record was deleted.
C3_Witness ==
    /\ last.op = "add"
    /\ last.outcome = "ok"
    /\ assigned \ Ids(tasks) # {}
    /\ tasks[Len(tasks)].id \in assigned

BadEnumWrite(call) ==
    \/ call.op = "add" /\ (call.priority \notin PRIORITIES \/ call.status \notin STATUSES)
    \/ call.op = "update" /\ call.priority # "" /\ call.priority \notin PRIORITIES

\* C4: every stored record has status in {Pending, Completed} and priority in
\* {high, medium, low}, and a write that carries another priority or status
\* stores nothing.
C4_EnumsAlwaysHold ==
    [][/\ \A i \in 1..Len(tasks') :
             tasks'[i].status \in STATUSES /\ tasks'[i].priority \in PRIORITIES
       /\ BadEnumWrite(last') => tasks' = tasks]_vars

\* C4 witness: an update that carried a priority outside the enumeration and
\* named an existing record has been made, and the record holds what it held.
C4_Witness ==
    /\ last.op = "update"
    /\ last.priority \notin PRIORITIES /\ last.priority # ""
    /\ AllNumeric(last.task_ids)
    /\ NamedIds(tasks, last.task_ids) # {}
    /\ last.outcome = "IntegrityError"

\* C5: every call returns with an outcome (success, empty result or rejection)
\* and none raises an exception.
C5_NoCallRaises == last.outcome \in {"none", "ok", "empty", "rejected"}

\* The messages "No task found with ID ..." an id-by-id pass over ids prints:
\* one for each id that has no record when its turn comes.
RECURSIVE MissingReport(_, _, _, _)
MissingReport(live, task_ids, i, removing) ==
    IF i > Len(task_ids) THEN <<>>
    ELSE LET n    == PyInt(task_ids[i])
             here == {id \in live : IntText(n) = <<DigitChar(id)>>}
         IN (IF here = {} THEN <<IntText(n)>> ELSE <<>>)
              \o MissingReport(IF removing THEN live \ here ELSE live,
                               task_ids, i + 1, removing)

\* C6: in an update or delete call with all-numeric ids each id is handled on
\* its own, in input order: the call completes, an id with a record is
\* updated (removed), an id with none is reported missing, whatever its
\* position.
C6_BatchHandlesEachId ==
    [][NumericBatch(last') =>
         /\ last'.outcome = "ok"
         /\ last'.report = MissingReport(Ids(tasks), last'.task_ids, 1, last'.op = "delete")
         /\ \A id \in NamedIds(tasks, last'.task_ids) :
               IF last'.op = "delete" THEN id \notin Ids(tasks')
               ELSE /\ id \in Ids(tasks')
                    /\ Truthy(last'.description)
                          => RowOf(tasks', id).description = last'.description
                    /\ last'.status # "" => RowOf(tasks', id).status # ""
                    /\ last'.priority # ""
                          => RowOf(tasks', id).priority = last'.priority
         /\ \A id \in Ids(tasks) \ NamedIds(tasks, last'.task_ids) :
               id \in Ids(tasks') /\ RowOf(tasks', id) = RowOf(tasks, id)]_vars

\* C7: an update call with all-numeric ids changes the supplied fields of the
\* existing records named in ids and nothing else: an absent or empty field
\* keeps its value, the other records are unchanged, none is created or
\* removed, and each named record holds every supplied field afterwards,
\* whatever the other ids of the batch are.
C7_UpdateFrameAndPersistence ==
    [][(last'.op = "update" /\ AllNumeric(last'.task_ids)) =>
         /\ Ids(tasks') = Ids(tasks)
         /\ Len(tasks') = Len(tasks)
         /\ \A id \in Ids(tasks) \ NamedIds(tasks, last'.task_ids) :
               RowOf(tasks', id) = RowOf(tasks, id)
         /\ \A id \in NamedIds(tasks, last'.task_ids) :
               LET old == RowOf(tasks, id)
                   new == RowOf(tasks', id)
               IN /\ new.description =
                        IF Truthy(last'.description) THEN last'.description
                        ELSE old.description
                  /\ new.deadline =
                        IF Truthy(last'.deadline) THEN last'.deadline ELSE old.deadline
                  /\ new.priority =
                        IF last'.priority # "" THEN last'.priority ELSE old.priority
                  /\ last'.status = "" => new.status = old.status]_vars

AsciiLetterPairs ==
    {<<"a","A">>, <<"b","B">>, <<"c","C">>, <<"d","D">>, <<"e","E">>, <<"f","F">>,
     <<"g","G">>, <<"h","H">>, <<"i","I">>, <<"j","J">>, <<"k","K">>, <<"l","L">>,
     <<"m","M">>, <<"n","N">>, <<"o","O">>, <<"p","P">>, <<"q","Q">>, <<"r","R">>,
     <<"s","S">>, <<"t","T">>, <<"u","U">>, <<"v","V">>, <<"w","W">>, <<"x","X">>,
     <<"y","Y">>, <<"z","Z">>}

SameUpToAsciiCase(a, b) ==
    a = b \/ <<a, b>> \in AsciiLetterPairs \/ <<b, a>> \in AsciiLetterPairs

\* The places of text (0 to Len(text) characters consumed) a match can be at
\* after one more character c of the keyword, from the places `at`.
KeywordStep(at, c, text) ==
    IF c = "%" THEN {j \in 0..Len(text) : \E i \in at : i <= j}
    ELSE {i + 1 : i \in {k \in at : /\ k < Len(text)
                                    /\ c = "_" \/ SameUpToAsciiCase(text[k + 1], c)}}

RECURSIVE KeywordPlaces(_, _, _)
KeywordPlaces(at, keyword, text) ==
    IF keyword = <<>> THEN at
    ELSE KeywordPlaces(KeywordStep(at, Head(keyword), text), Tail(keyword), text)

\* text contains keyword somewhere, letters compared without regard to ASCII
\* case, _ in the keyword standing for any one character and % for any run.
ContainsIgnoringCase(text, keyword) ==
    KeywordPlaces(0..Len(text), keyword, text) # {}

\* text contains keyword as it is written.
ContainsExactly(text, keyword) ==
    \E o \in 0..(Len(text) - Len(keyword)) :
       \A i \in 1..Len(keyword) : text[o + i] = keyword[i]

\* C8 as stated: search(keyword) with a non-empty keyword returns exactly the
\* records whose description contains keyword as a case-sensitive substring,
\* and search("") is rejected.
C8_CaseSensitiveSubstring ==
    last.op = "search" =>
       IF last.keyword = <<>> THEN last.outcome = "rejected" /\ last.result = <<>>
       ELSE last.result =
               SelectSeq(tasks, LAMBDA r : ContainsExactly(r.description, last.keyword))

\* C8 as amended: search(keyword) with a non-empty keyword returns exactly the
\* records whose description contains keyword as a substring compared without
\* regard to ASCII letter case, _ in the keyword standing for any one
\* character and % for any run of characters; search("") is rejected and
\* returns nothing.
C8_CaseInsensitiveSubstring ==
    last.op = "search" =>
       IF last.keyword = <<>> THEN last.outcome = "rejected" /\ last.result = <<>>
       ELSE /\ last.result =
                  SelectSeq(tasks, LAMBDA r : ContainsIgnoringCase(r.description, last.keyword))
            /\ last.outcome = IF last.result = <<>> THEN "empty" ELSE "ok"

\* C8 witness: a search has returned a record that holds the keyword only in
\* another letter case, and has left out a record that does not hold it.
C8_Witness ==
    /\ last.op = "search"
    /\ \A i \in 1..Len(last.keyword) : last.keyword[i] \notin {"%", "_"}
    /\ \E i \in 1..Len(last.result) :
          ~ContainsExactly(last.result[i].description, last.keyword)
    /\ Len(last.result) < Len(tasks)

Number2(text, i) == 10 * DigitVal(text[i]) + DigitVal(text[i + 1])

RECURSIVE DaysBeforeYear(_)
DaysBeforeYear(y) ==
    IF y <= 2024 THEN 0
    ELSE DaysBeforeYear(y - 1) + (IF IsLeap(y - 1) THEN 366 ELSE 365)

RECURSIVE DaysBeforeMonth(_, _)
DaysBeforeMonth(y, m) ==
    IF m <= 1 THEN 0 ELSE DaysBeforeMonth(y, m - 1) + DaysInMonth(y, m - 1)

\* Seconds from 2024-01-01 00:00:00 to the given moment.
SecondsAt(y, m, d, h, mi, s) ==
    (((DaysBeforeYear(y) + DaysBeforeMonth(y, m) + (d - 1)) * 24 + h) * 60 + mi) * 60 + s

\* The moment a deadline text names: "YYYY-MM-DD HH:MM:SS", or "YYYY-MM-DD"
\* for that date at midnight.
DeadlineSeconds(text) ==
    LET y == 100 * Number2(text, 1) + Number2(text, 3)
    IN IF Len(text) = 10
       THEN SecondsAt(y, Number2(text, 6), Number2(text, 9), 0, 0, 0)
       ELSE SecondsAt(y, Number2(text, 6), Number2(text, 9),
                      Number2(text, 12), Number2(text, 15), Number2(text, 18))

StampShaped(text) ==
    /\ Len(text) = 19
    /\ text[5] = "-" /\ text[8] = "-" /\ text[11] = " " /\ text[14] = ":" /\ text[17] = ":"
    /\ \A i \in (1..19) \ {5, 8, 11, 14, 17} : text[i] \in DigitChars

\* C9: dueSoon(now) reports the cutoff now + 24 hours as YYYY-MM-DD HH:MM:SS
\* and returns exactly the Pending records whose deadline is at or before it,
\* a date-only deadline counting as that date at midnight; a Completed record
\* is never returned.
C9_DueSoonWithin24Hours ==
    last.op = "due_soon" =>
       LET cutoff == SecondsAt(last.now.y, last.now.m, last.now.d,
                               last.now.h, last.now.mi, last.now.s) + 24 * 60 * 60
       IN /\ Len(last.report) = 1
          /\ StampShaped(last.report[1])
          /\ DeadlineSeconds(last.report[1]) = cutoff
          /\ last.result =
                SelectSeq(tasks, LAMBDA r : /\ r.status = "Pending"
                                            /\ r.deadline # NoneText
                                            /\ DeadlineSeconds(r.deadline) <= cutoff)
          /\ \A i \in 1..Len(last.result) : last.result[i].status # "Completed"

\* C9 witness: dueSoon has returned a Pending record with a date-only deadline
\* and has left out a Completed record with the same deadline and a Pending
\* record that is due later.
C9_Witness ==
    /\ last.op = "due_soon"
    /\ \E i \in 1..Len(last.result) :
          /\ Len(last.result[i].deadline) = 10
          /\ \E j \in 1..Len(tasks) :
                /\ tasks[j].status = "Completed"
                /\ tasks[j].deadline = last.result[i].deadline
    /\ \E j \in 1..Len(tasks) :
          /\ tasks[j].status = "Pending"
          /\ tasks[j].deadline # NoneText
          /\ \A i \in 1..Len(last.result) : last.result[i].id # tasks[j].id

ComesBefore == {<<"high", "medium">>, <<"medium", "low">>, <<"high", "low">>}

\* C10: list(orderBy="priority") returns every stored record exactly once,
\* high before medium before low whatever the order of insertion, and the
\* empty-result outcome, not an error, on an empty table.
C10_PriorityOrder ==
    (last.op = "view" /\ last.order_by = "priority") =>
       IF tasks = <<>> THEN last.outcome = "empty" /\ last.result = <<>>
       ELSE /\ last.outcome = "ok"
            /\ Len(last.result) = Len(tasks)
            /\ \A i \in 1..Len(tasks) :
                  Cardinality({j \in 1..Len(last.result) : last.result[j] = tasks[i]}) = 1
            /\ \A i, j \in 1..Len(last.result) :
                  i < j => <<last.result[j].priority, last.result[i].priority>>
                              \notin ComesBefore

\* C10 witness: a priority listing of a low, a medium and a high record that
\* were inserted in another order.
C10_Witness ==
    /\ last.op = "view"
    /\ last.order_by = "priority"
    /\ {last.result[i].priority : i \in 1..Len(last.result)} = PRIORITIES
    /\ last.result # tasks

====
